---- MODULE Spec2Model ----
(***************************************************************************)
(* DiagLazyTensor (gpytorch/lazy/diag_lazy_tensor.py): a lazy diagonal     *)
(* matrix held as its diagonal, a tensor of shape (n,) or (B, n).          *)
(*                                                                         *)
(* A tensor is a record [shape, data, err]: data is the row-major          *)
(* (contiguous) sequence of its entries, err is "" for a value and the     *)
(* name of the raised exception for a failed tensor operation.  Entries    *)
(* are integers standing for finite floats, plus NaN.  A heap of tensors   *)
(* (store) and a heap of lazy tensor objects (objs) are addressed by       *)
(* location, so that aliasing and in-place writes can be told from fresh   *)
(* results.                                                                *)
(***************************************************************************)
EXTENDS Integers, Sequences, FiniteSets, TLC

\* ------------------------------------------------------------------ bounds
MaxN == 2        \* largest n (length of one diagonal)
MaxB == 4        \* largest batch size B
MaxK == 2        \* largest trailing dimension k of an operand
MaxDepth == 1    \* how many times the caller goes on with a returned instance

\* ----------------------------------------------------------- float entries
\* The float not-a-number, encoded outside the range of the finite entries.
NaN == -9999

\* float product: NaN is absorbing, also against 0.
MulV(a, b) == IF a = NaN \/ b = NaN THEN NaN ELSE a * b

\* float sum.
AddV(a, b) == IF a = NaN \/ b = NaN THEN NaN ELSE a + b

\* ------------------------------------------------------- tensor primitives
T(shape, data) == [shape |-> shape, data |-> data, err |-> ""]

Raise(kind) == [shape |-> <<>>, data |-> <<>>, err |-> kind]

NoTensor == Raise("unallocated")

IsTensor(t) == t.err = ""

RECURSIVE Prod(_)
Prod(s) == IF s = <<>> THEN 1 ELSE s[1] * Prod(Tail(s))

\* Stride of dimension d (1-based) of a contiguous tensor of shape s.
Stride(s, d) == Prod(SubSeq(s, d + 1, Len(s)))

\* 0-based coordinates of the k-th (0-based) entry in row-major order.
Coord(k, s) == [d \in 1..Len(s) |-> (k \div Stride(s, d)) % s[d]]

RECURSIVE FlatFrom(_, _, _)
FlatFrom(c, s, d) ==
    IF d > Len(s) THEN 0 ELSE c[d] * Stride(s, d) + FlatFrom(c, s, d + 1)

\* The entry of t at 0-based coordinates c.
At(t, c) == t.data[FlatFrom(c, t.shape, 1) + 1]

Max(a, b) == IF a >= b THEN a ELSE b

\* s padded on the left with 1s to length len (broadcast alignment).
PadLeft(s, len) == [d \in 1..len |-> IF d <= len - Len(s) THEN 1 ELSE s[d - (len - Len(s))]]

\* Tensor.expand(shape): size-1 dimensions (and missing leading ones) repeat.
Expand(t, shape) ==
    IF ~IsTensor(t) THEN t
    ELSE IF Len(shape) < Len(t.shape) THEN Raise("RuntimeError")
    ELSE LET off == Len(shape) - Len(t.shape)
             src == PadLeft(t.shape, Len(shape))
         IN  IF \E d \in 1..Len(shape) : src[d] # shape[d] /\ src[d] # 1
             THEN Raise("RuntimeError")
             ELSE T(shape,
                    [k \in 1..Prod(shape) |->
                       LET c == Coord(k - 1, shape)
                       IN  At(t, [d \in 1..Len(t.shape) |->
                                    IF t.shape[d] = 1 THEN 0 ELSE c[d + off]])])

\* Tensor.expand_as(other)
ExpandAs(t, other) ==
    IF ~IsTensor(other) THEN other ELSE Expand(t, other.shape)

\* Tensor.unsqueeze(-1)
Unsqueeze(t) == IF ~IsTensor(t) THEN t ELSE T(t.shape \o <<1>>, t.data)

Broadcastable(s1, s2) ==
    LET len == Max(Len(s1), Len(s2))
        p1 == PadLeft(s1, len)
        p2 == PadLeft(s2, len)
    IN  \A d \in 1..len : p1[d] = p2[d] \/ p1[d] = 1 \/ p2[d] = 1

BroadcastShape(s1, s2) ==
    LET len == Max(Len(s1), Len(s2))
        p1 == PadLeft(s1, len)
        p2 == PadLeft(s2, len)
    IN  [d \in 1..len |-> IF p1[d] = 1 THEN p2[d] ELSE p1[d]]

EqV(a, b) == IF a = b THEN 1 ELSE 0

\* One entry of an elementwise operation: "*", "+" or "eq".
ApplyV(op, a, b) ==
    CASE op = "*"  -> MulV(a, b)
      [] op = "+"  -> AddV(a, b)
      [] op = "eq" -> EqV(a, b)

\* An elementwise binary operation, its operands broadcast against each other.
Pointwise(op, a, b) ==
    IF ~IsTensor(a) THEN a
    ELSE IF ~IsTensor(b) THEN b
    ELSE IF ~Broadcastable(a.shape, b.shape) THEN Raise("RuntimeError")
    ELSE LET s  == BroadcastShape(a.shape, b.shape)
             ea == Expand(a, s)
             eb == Expand(b, s)
         IN  T(s, [k \in 1..Prod(s) |-> ApplyV(op, ea.data[k], eb.data[k])])

\* a * b
Mul(a, b) == Pointwise("*", a, b)

\* a + b
Add(a, b) == Pointwise("+", a, b)

\* a.eq(b).type_as(diag): 1.0 where the entries are equal, 0.0 elsewhere.
EqAs(a, b) == Pointwise("eq", a, b)

RECURSIVE SumTo(_, _)
\* f[0] + ... + f[m - 1] in float arithmetic.
SumTo(f, m) == IF m = 0 THEN 0 ELSE AddV(SumTo(f, m - 1), f[m - 1])

\* Tensor.sum(dim) for a negative dim.
Sum(t, dim) ==
    IF ~IsTensor(t) THEN t
    ELSE LET ax == Len(t.shape) + dim + 1
         IN  IF ax < 1 \/ ax > Len(t.shape) THEN Raise("IndexError")
             ELSE LET s == [d \in 1..(Len(t.shape) - 1) |->
                              IF d < ax THEN t.shape[d] ELSE t.shape[d + 1]]
                  IN  T(s, [k \in 1..Prod(s) |->
                              LET c == Coord(k - 1, s)
                              IN  SumTo([j \in 0..(t.shape[ax] - 1) |->
                                           At(t, [d \in 1..Len(t.shape) |->
                                                    IF d < ax THEN c[d]
                                                    ELSE IF d = ax THEN j
                                                    ELSE c[d - 1]])],
                                        t.shape[ax])])

\* Tensor.view(-1, rest...): the leading size is inferred from the rest.
View(t, rest) ==
    IF ~IsTensor(t) THEN t
    ELSE LET known == Prod(rest)
         IN  IF (\E d \in 1..Len(rest) : rest[d] < 0) \/ known = 0
                \/ Len(t.data) % known # 0
             THEN Raise("RuntimeError")
             ELSE T(<<Len(t.data) \div known>> \o rest, t.data)

\* A tensor index i into a dimension of size n: negative indices count from the end.
Wrap(i, n) == IF i < 0 THEN i + n ELSE i

InRange(i, n) == Wrap(i, n) >= 0 /\ Wrap(i, n) < n

\* t[idx] for an integer tensor idx: gathers along dimension 0.
Index(t, idx) ==
    IF ~IsTensor(t) THEN t
    ELSE IF ~IsTensor(idx) THEN idx
    ELSE IF \E k \in 1..Len(idx.data) : ~InRange(idx.data[k], t.shape[1])
         THEN Raise("IndexError")
    ELSE LET row == Stride(t.shape, 1)
         IN  T(idx.shape \o Tail(t.shape),
               [k \in 1..(Len(idx.data) * row) |->
                  t.data[Wrap(idx.data[((k - 1) \div row) + 1], t.shape[1]) * row
                         + ((k - 1) % row) + 1]])

\* t[bidx, idx] for integer tensors bidx, idx: gathers along dimensions 0 and 1.
Index2(t, bidx, idx) ==
    IF ~IsTensor(t) THEN t
    ELSE IF ~IsTensor(bidx) THEN bidx
    ELSE IF ~IsTensor(idx) THEN idx
    ELSE IF Len(t.shape) < 2 THEN Raise("IndexError")
    ELSE IF ~Broadcastable(bidx.shape, idx.shape) THEN Raise("IndexError")
    ELSE LET s  == BroadcastShape(bidx.shape, idx.shape)
             eb == Expand(bidx, s)
             ei == Expand(idx, s)
         IN  IF \E k \in 1..Prod(s) :
                    ~InRange(eb.data[k], t.shape[1]) \/ ~InRange(ei.data[k], t.shape[2])
             THEN Raise("IndexError")
             ELSE T(s, [k \in 1..Prod(s) |->
                          At(t, <<Wrap(eb.data[k], t.shape[1]),
                                  Wrap(ei.data[k], t.shape[2])>>)])

\* Tensor.diag() of a vector: the dense matrix with it on the main diagonal.
DiagEmbed(t) ==
    IF ~IsTensor(t) THEN t
    ELSE LET n == t.shape[1]
         IN  T(<<n, n>>, [k \in 1..(n * n) |->
                            IF (k - 1) \div n = (k - 1) % n THEN t.data[((k - 1) % n) + 1]
                            ELSE 0])

\* The identity matrix of a size (n, n), or the batch of them of a size (B, n, n).
Eye(size) ==
    T(size, [k \in 1..Prod(size) |->
               LET c == Coord(k - 1, size)
               IN  IF c[Len(size) - 1] = c[Len(size)] THEN 1 ELSE 0])

VARIABLES
    store,   \* tensor heap: location -> tensor (NoTensor when unallocated)
    objs,    \* object heap: location -> lazy tensor object (NoObj when unallocated)
    call,    \* the last call made on the instance at "self", with its outcome
    depth,   \* how many times the caller went on with a returned instance
    born     \* the diagonal the instance at "self" was constructed with

vars == <<store, objs, call, depth, born>>

TLoc == {"self_diag", "other_diag", "other_t", "a1", "a2", "a3", "res"}

OLoc == {"self", "other", "res"}

NoObj == [cls |-> "", _diag |-> "", tensor |-> "", lazy_vars |-> <<>>]

\* ------------------------------------------------------- calls and returns
\* What a call hands back: the heaps after it, and a reference to its result.
Outcome(st, ob, kind, tloc, oloc, val, evaluated, err) ==
    [st |-> st, ob |-> ob, kind |-> kind, tloc |-> tloc, oloc |-> oloc,
     val |-> val, evaluated |-> evaluated, err |-> err]

\* An exception leaves the call: nothing is allocated, nothing returned.
Raised(st, ob, err) == Outcome(st, ob, "none", "", "", <<>>, {}, err)

\* A tensor expression's value is returned: a freshly allocated tensor.
ReturnTensor(st, ob, t, kind) ==
    IF ~IsTensor(t) THEN Raised(st, ob, t.err)
    ELSE Outcome([st EXCEPT !["res"] = t], ob, kind, "res", "", <<>>, {}, "")

\* DiagLazyTensor(diag): a new instance holding the tensor it is given.
DiagLazyTensor(st, ob, t) ==
    IF ~IsTensor(t) THEN Raised(st, ob, t.err)
    ELSE Outcome([st EXCEPT !["res"] = t],
                 [ob EXCEPT !["res"] = [cls |-> "DiagLazyTensor", _diag |-> "res",
                                        tensor |-> "", lazy_vars |-> <<>>]],
                 "lazy", "", "res", <<>>, {}, "")

\* AddedDiagLazyTensor(a, b): the composite of a lazy tensor and a diagonal.
AddedDiagLazyTensor(st, ob, a, b) ==
    Outcome(st,
            [ob EXCEPT !["res"] = [cls |-> "AddedDiagLazyTensor", _diag |-> "",
                                   tensor |-> "", lazy_vars |-> <<a, b>>]],
            "lazy", "", "res", <<>>, {}, "")

\* The diagonal tensor of the instance at location self.
DiagOf(st, ob, self) == st[ob[self]._diag]

\* ------------------------------------------------------------ the methods
_size(st, ob, self) ==
    LET d == DiagOf(st, ob, self)
    IN  IF Len(d.shape) = 2
        THEN <<d.shape[1], d.shape[Len(d.shape)], d.shape[Len(d.shape)]>>
        ELSE <<d.shape[Len(d.shape)], d.shape[Len(d.shape)]>>

\* LazyTensor.ndimension(): the number of dimensions of size().
ndimension(st, ob, self) == Len(_size(st, ob, self))

\* _matmul with the diagonal expanded as it is, the unsqueeze(-1) left out.
_matmul_no_unsqueeze(st, ob, self, rhs) ==
    IF Len(st[rhs].shape) = 1 /\ ndimension(st, ob, self) = 2
    THEN ReturnTensor(st, ob, Mul(DiagOf(st, ob, self), st[rhs]), "tensor")
    ELSE ReturnTensor(st, ob,
                      Mul(ExpandAs(DiagOf(st, ob, self), st[rhs]), st[rhs]),
                      "tensor")

_matmul(st, ob, self, rhs) ==
    IF Len(st[rhs].shape) = 1 /\ ndimension(st, ob, self) = 2
    THEN ReturnTensor(st, ob, Mul(DiagOf(st, ob, self), st[rhs]), "tensor")
    ELSE ReturnTensor(st, ob,
                      Mul(ExpandAs(Unsqueeze(DiagOf(st, ob, self)), st[rhs]), st[rhs]),
                      "tensor")

_t_matmul(st, ob, self, rhs) == _matmul(st, ob, self, rhs)

\* _quad_form_derivative summing whenever the product has at least diag's dimensions.
_quad_form_derivative_ge(st, ob, self, left_vecs, right_vecs) ==
    LET res == Mul(st[left_vecs], st[right_vecs])
    IN  IF IsTensor(res) /\ Len(res.shape) >= Len(DiagOf(st, ob, self).shape)
        THEN ReturnTensor(st, ob, Sum(res, -1), "tuple")
        ELSE ReturnTensor(st, ob, res, "tuple")

_quad_form_derivative(st, ob, self, left_vecs, right_vecs) ==
    LET res == Mul(st[left_vecs], st[right_vecs])
    IN  IF IsTensor(res) /\ Len(res.shape) > Len(DiagOf(st, ob, self).shape)
        THEN ReturnTensor(st, ob, Sum(res, -1), "tuple")
        ELSE ReturnTensor(st, ob, res, "tuple")

_transpose_nonbatch(st, ob, self) ==
    Outcome(st, ob, "lazy", "", self, <<>>, {}, "")

_batch_get_indices(st, ob, self, batch_indices, left_indices, right_indices) ==
    LET equal_indices == EqAs(st[left_indices], st[right_indices])
    IN  ReturnTensor(st, ob,
                     Mul(Index2(DiagOf(st, ob, self), st[batch_indices], st[left_indices]),
                         equal_indices),
                     "tensor")

\* _get_indices with the mask of equal indices left out.
_get_indices_unmasked(st, ob, self, left_indices, right_indices) ==
    ReturnTensor(st, ob, Index(DiagOf(st, ob, self), st[left_indices]), "tensor")

_get_indices(st, ob, self, left_indices, right_indices) ==
    LET equal_indices == EqAs(st[left_indices], st[right_indices])
    IN  ReturnTensor(st, ob,
                     Mul(Index(DiagOf(st, ob, self), st[left_indices]), equal_indices),
                     "tensor")

\* add_diag adding in place (self._diag += ...) and returning self.
add_diag_inplace(st, ob, self, added_diag) ==
    LET sum == Add(DiagOf(st, ob, self), ExpandAs(st[added_diag], DiagOf(st, ob, self)))
    IN  IF ~IsTensor(sum) THEN Raised(st, ob, sum.err)
        ELSE Outcome([st EXCEPT ![ob[self]._diag] = sum], ob, "lazy", "", self,
                     <<>>, {}, "")

add_diag(st, ob, self, added_diag) ==
    DiagLazyTensor(st, ob,
                   Add(DiagOf(st, ob, self),
                       ExpandAs(st[added_diag], DiagOf(st, ob, self))))

\* __add__ densifying a sum with an operand that is no diagonal.
__add__dense(st, ob, self, other) ==
    IF ob[other].cls = "DiagLazyTensor"
    THEN DiagLazyTensor(st, ob, Add(DiagOf(st, ob, self), DiagOf(st, ob, other)))
    ELSE LET eye == Eye(_size(st, ob, self))
             dense == Mul(Expand(Unsqueeze(DiagOf(st, ob, self)), eye.shape), eye)
         IN  Outcome([st EXCEPT !["res"] = Add(dense, st[ob[other].tensor])],
                     [ob EXCEPT !["res"] = [cls |-> "NonLazyTensor", _diag |-> "",
                                            tensor |-> "res", lazy_vars |-> <<>>]],
                     "lazy", "", "res", <<>>, {self, other}, "")

__add__(st, ob, self, other) ==
    IF ob[other].cls = "DiagLazyTensor"
    THEN DiagLazyTensor(st, ob, Add(DiagOf(st, ob, self), DiagOf(st, ob, other)))
    ELSE AddedDiagLazyTensor(st, ob, other, self)

diag(st, ob, self) ==
    Outcome(st, ob, "tensor", ob[self]._diag, "", <<>>, {}, "")

\* LazyTensor.evaluate(): the generic dense path, the product with the identity.
LazyTensor_evaluate(st, ob, self) ==
    LET eye == Eye(_size(st, ob, self))
        out == ReturnTensor(st, ob,
                            Mul(Expand(Unsqueeze(DiagOf(st, ob, self)), eye.shape), eye),
                            "tensor")
    IN  [out EXCEPT !.evaluated = {self}]

evaluate(st, ob, self) ==
    IF ndimension(st, ob, self) = 2
    THEN [ReturnTensor(st, ob, DiagEmbed(DiagOf(st, ob, self)), "tensor")
            EXCEPT !.evaluated = {self}]
    ELSE LazyTensor_evaluate(st, ob, self)

\* sum_batch ignoring the group size: the whole batch is summed.
sum_batch_whole(st, ob, self, sum_batch_size) ==
    LET d == DiagOf(st, ob, self)
        n == d.shape[Len(d.shape)]
    IN  DiagLazyTensor(st, ob, Sum(View(d, <<n>>), -2))

\* sum_batch dropping the rows of a last, partial group instead of failing.
sum_batch_truncating(st, ob, self, sum_batch_size) ==
    LET d == DiagOf(st, ob, self)
        n == d.shape[Len(d.shape)]
        group == sum_batch_size[1] * n
        keep == IF group > 0 THEN (Len(d.data) \div group) * group ELSE 0
        v == IF sum_batch_size = <<>>
             THEN View(d, <<n>>)
             ELSE View(T(<<keep>>, SubSeq(d.data, 1, keep)), <<sum_batch_size[1], n>>)
    IN  DiagLazyTensor(st, ob, Sum(v, -2))

\* sum_batch with the sum over the group left out.
sum_batch_unsummed(st, ob, self, sum_batch_size) ==
    LET d == DiagOf(st, ob, self)
        n == d.shape[Len(d.shape)]
    IN  IF sum_batch_size = <<>>
        THEN DiagLazyTensor(st, ob, Sum(View(d, <<n>>), -2))
        ELSE DiagLazyTensor(st, ob, View(d, <<sum_batch_size[1], n>>))

\* sum_batch_size is <<>> for None and <<g>> for a group size g.
sum_batch(st, ob, self, sum_batch_size) ==
    LET d == DiagOf(st, ob, self)
        n == d.shape[Len(d.shape)]
        v == IF sum_batch_size = <<>>
             THEN View(d, <<n>>)
             ELSE View(d, <<sum_batch_size[1], n>>)
    IN  DiagLazyTensor(st, ob, Sum(v, -2))

\* ----------------------------------------------------- the caller's inputs
Seeds == 0..3

\* The seed whose tensors hold NaN at their odd positions.
NaNSeed == Cardinality(Seeds) - 1

\* The i-th entry (1-based, row-major) of the tensor a seed generates.
Entry(seed, i) ==
    IF seed = NaNSeed /\ i % 2 = 1 THEN NaN ELSE (((seed + 1) * i + seed) % 5) - 1

Gen(shape, seed) == T(shape, [i \in 1..Prod(shape) |-> Entry(seed, i)])

\* Shapes of a diagonal: (n,) and (B, n).
DiagShapes ==
    {<<n>> : n \in 1..MaxN} \cup {<<b, n>> : b \in 1..MaxB, n \in 1..MaxN}

\* Shapes of a right-hand side: (m,), (m, k) and (B, m, k).
RhsShapes ==
    {<<m>> : m \in 1..MaxN}
      \cup {<<m, k>> : m \in 1..MaxN, k \in 1..MaxK}
      \cup {<<b, m, k>> : b \in 1..MaxB, m \in 1..MaxN, k \in 1..MaxK}

\* Index values offered for a dimension of size n: in range, one past the end,
\* the last entry counted from the end, and one before the start.
IdxVals(n) == [j \in 1..(n + 3) |-> IF j <= n + 1 THEN j - 1
                                     ELSE IF j = n + 2 THEN -1 ELSE -(n + 1)]

\* An index tensor of the given length over a dimension of size n: it starts at
\* the start-th index value and moves on by step.
IdxGen(len, n, start, step) ==
    T(<<len>>, [k \in 1..len |-> IdxVals(n)[((start + (k - 1) * step) % (n + 3)) + 1]])

IdxStarts(n) == 0..(n + 2)

\* Starts of a batch index tensor: the first and the last batch, and the three
\* index values that are not a batch's position.
BatchStarts(B) == {0, B - 1, B, B + 1, B + 2}

IdxSteps == {0, 1}

\* Lengths of the index tensors.
IdxLens == {1, MaxK}

\* The caller's heap as a call starts: the instance, and the call's arguments.
Args(a1, a2, a3, other_diag, other_t) ==
    [l \in TLoc |->
       CASE l = "self_diag"  -> store["self_diag"]
         [] l = "a1"         -> a1
         [] l = "a2"         -> a2
         [] l = "a3"         -> a3
         [] l = "other_diag" -> other_diag
         [] l = "other_t"    -> other_t
         [] OTHER            -> NoTensor]

Others(other) == [l \in OLoc |-> CASE l = "self"  -> objs["self"]
                                   [] l = "other" -> other
                                   [] OTHER       -> NoObj]

NoCall == [op |-> "", err |-> "", kind |-> "none", tloc |-> "", oloc |-> "",
           val |-> <<>>, evaluated |-> {}, pre |-> [l \in TLoc |-> NoTensor],
           g |-> <<>>]

\* The call op is made on the heap st0 and ends as out.  Calls are synchronous:
\* the caller makes one when it holds no pending result.
Do(op, st0, out, g) ==
    /\ call = NoCall
    /\ store' = out.st
    /\ objs' = out.ob
    /\ call' = [op |-> op, err |-> out.err, kind |-> out.kind, tloc |-> out.tloc,
                oloc |-> out.oloc, val |-> out.val, evaluated |-> out.evaluated,
                pre |-> st0, g |-> g]
    /\ UNCHANGED <<depth, born>>

SelfDiag == store["self_diag"]

\* n of the instance.
SelfN == SelfDiag.shape[Len(SelfDiag.shape)]

\* The seeds of the inputs where sequences of calls are followed.
SeqSeeds == Seeds

SeqArgSeeds == {2, NaNSeed}

\* An instance constructed from a diagonal of any shape.
InitWith(seeds) ==
    /\ \E shape \in DiagShapes, seed \in seeds :
          /\ store = [l \in TLoc |-> IF l = "self_diag" THEN Gen(shape, seed)
                                     ELSE NoTensor]
          /\ born = Gen(shape, seed)
    /\ objs = [l \in OLoc |-> IF l = "self"
                              THEN [cls |-> "DiagLazyTensor", _diag |-> "self_diag",
                                    tensor |-> "", lazy_vars |-> <<>>]
                              ELSE NoObj]
    /\ call = NoCall
    /\ depth = 0

Init == InitWith(Seeds)

InitSeq == InitWith(SeqSeeds)

Matmul ==
    \E shape \in RhsShapes, seed \in Seeds :
       LET st0 == Args(Gen(shape, seed), NoTensor, NoTensor, NoTensor, NoTensor)
       IN  Do("matmul", st0, _matmul(st0, Others(NoObj), "self", "a1"), <<>>)

TMatmul ==
    \E shape \in RhsShapes, seed \in Seeds :
       LET st0 == Args(Gen(shape, seed), NoTensor, NoTensor, NoTensor, NoTensor)
       IN  Do("t_matmul", st0, _t_matmul(st0, Others(NoObj), "self", "a1"), <<>>)

\* left_vecs and right_vecs have diag's shape, or one more trailing dimension.
QuadFormDerivative ==
    \E k \in 0..MaxK, ls \in Seeds, rs \in Seeds :
       LET shape == IF k = 0 THEN SelfDiag.shape ELSE SelfDiag.shape \o <<k>>
           st0 == Args(Gen(shape, ls), Gen(shape, rs), NoTensor, NoTensor, NoTensor)
       IN  Do("quad_form_derivative", st0,
              _quad_form_derivative(st0, Others(NoObj), "self", "a1", "a2"), <<>>)

Size ==
    LET st0 == Args(NoTensor, NoTensor, NoTensor, NoTensor, NoTensor)
    IN  Do("size", st0,
           Outcome(st0, Others(NoObj), "size", "", "",
                   _size(st0, Others(NoObj), "self"), {}, ""),
           <<>>)

Transpose ==
    LET st0 == Args(NoTensor, NoTensor, NoTensor, NoTensor, NoTensor)
    IN  Do("transpose", st0, _transpose_nonbatch(st0, Others(NoObj), "self"), <<>>)

\* The batched instance is indexed by batch, row and column index tensors.
BatchGetIndices ==
    /\ Len(SelfDiag.shape) = 2
    /\ \E len \in IdxLens, bs \in BatchStarts(SelfDiag.shape[1]),
          ls \in IdxStarts(SelfN), rs \in IdxStarts(SelfN),
          lstep \in IdxSteps, rstep \in IdxSteps :
          LET st0 == Args(IdxGen(len, SelfDiag.shape[1], bs, 0),
                          IdxGen(len, SelfN, ls, lstep),
                          IdxGen(len, SelfN, rs, rstep), NoTensor, NoTensor)
          IN  Do("batch_get_indices", st0,
                 _batch_get_indices(st0, Others(NoObj), "self", "a1", "a2", "a3"), <<>>)

\* The unbatched instance is indexed by row and column index tensors.
GetIndices ==
    /\ Len(SelfDiag.shape) = 1
    /\ \E len \in IdxLens, ls \in IdxStarts(SelfN), rs \in IdxStarts(SelfN),
          lstep \in IdxSteps, rstep \in IdxSteps :
          LET st0 == Args(IdxGen(len, SelfN, ls, lstep), IdxGen(len, SelfN, rs, rstep),
                          NoTensor, NoTensor, NoTensor)
          IN  Do("get_indices", st0,
                 _get_indices(st0, Others(NoObj), "self", "a1", "a2"), <<>>)

AddDiag(seeds) ==
    \E shape \in {<<1>>, <<SelfN>>, <<1, SelfN>>, SelfDiag.shape}, seed \in seeds :
       LET st0 == Args(Gen(shape, seed), NoTensor, NoTensor, NoTensor, NoTensor)
       IN  Do("add_diag", st0, add_diag(st0, Others(NoObj), "self", "a1"), <<>>)

\* self + other, other a DiagLazyTensor.
AddDiagonal(seeds) ==
    \E shape \in DiagShapes, seed \in seeds :
       LET st0 == Args(NoTensor, NoTensor, NoTensor, Gen(shape, seed), NoTensor)
           ob0 == Others([cls |-> "DiagLazyTensor", _diag |-> "other_diag",
                          tensor |-> "", lazy_vars |-> <<>>])
       IN  Do("__add__", st0, __add__(st0, ob0, "self", "other"), <<>>)

\* self + other, other a lazy tensor wrapping a dense matrix.
AddOther ==
    \E seed \in Seeds :
       LET st0 == Args(NoTensor, NoTensor, NoTensor, NoTensor,
                       Gen(_size(store, objs, "self"), seed))
           ob0 == Others([cls |-> "NonLazyTensor", _diag |-> "",
                          tensor |-> "other_t", lazy_vars |-> <<>>])
       IN  Do("__add__", st0, __add__(st0, ob0, "self", "other"), <<>>)

Diag ==
    LET st0 == Args(NoTensor, NoTensor, NoTensor, NoTensor, NoTensor)
    IN  Do("diag", st0, diag(st0, Others(NoObj), "self"), <<>>)

Evaluate ==
    LET st0 == Args(NoTensor, NoTensor, NoTensor, NoTensor, NoTensor)
    IN  Do("evaluate", st0, evaluate(st0, Others(NoObj), "self"), <<>>)

SumBatch ==
    \E g \in {<<>>} \cup {<<x>> : x \in 0..(MaxB + 1)} :
       LET st0 == Args(NoTensor, NoTensor, NoTensor, NoTensor, NoTensor)
       IN  Do("sum_batch", st0, sum_batch(st0, Others(NoObj), "self", g), g)

\* The caller goes on with the DiagLazyTensor the last call returned, and drops
\* everything else.
Rebind ==
    /\ depth < MaxDepth
    /\ call.err = "" /\ call.kind = "lazy"
    /\ objs[call.oloc].cls = "DiagLazyTensor"
    /\ store' = [l \in TLoc |-> IF l = "self_diag" THEN store[objs[call.oloc]._diag]
                                ELSE NoTensor]
    /\ objs' = [l \in OLoc |-> IF l = "self"
                               THEN [cls |-> "DiagLazyTensor", _diag |-> "self_diag",
                                     tensor |-> "", lazy_vars |-> <<>>]
                               ELSE NoObj]
    /\ call' = NoCall
    /\ depth' = depth + 1
    /\ born' = store[objs[call.oloc]._diag]

\* The caller drops the last call's arguments and result.
Drop ==
    /\ call # NoCall
    /\ store' = [l \in TLoc |-> IF l = "self_diag" THEN store[l] ELSE NoTensor]
    /\ objs' = [l \in OLoc |-> IF l = "self" THEN objs[l] ELSE NoObj]
    /\ call' = NoCall
    /\ UNCHANGED <<depth, born>>

\* Single calls, one after the other, on an instance of any shape.
Next ==
    \/ Matmul
    \/ TMatmul
    \/ QuadFormDerivative
    \/ Size
    \/ Transpose
    \/ BatchGetIndices
    \/ GetIndices
    \/ AddDiag(Seeds)
    \/ AddDiagonal(Seeds)
    \/ AddOther
    \/ Diag
    \/ Evaluate
    \/ SumBatch
    \/ Drop

Spec == Init /\ [][Next]_vars

\* Sequences of the calls that return a DiagLazyTensor, each made on the instance
\* the one before returned.
NextSeq ==
    \/ Size
    \/ Transpose
    \/ AddDiag(SeqArgSeeds)
    \/ AddDiagonal(SeqArgSeeds)
    \/ SumBatch
    \/ Rebind
    \/ Drop

SpecSeq == InitSeq /\ [][NextSeq]_vars

\* ------------------------------------------------------------- the claims
\* The instance's diagonal and the arguments as the last call received them, and
\* what it returned.
PreDiag == call.pre["self_diag"]

PreN == PreDiag.shape[Len(PreDiag.shape)]

Arg1 == call.pre["a1"]

Arg2 == call.pre["a2"]

Arg3 == call.pre["a3"]

Returned == call.op # "" /\ call.err = ""

Failed == call.op # "" /\ call.err # "" /\ call.kind = "none"
          /\ store["res"] = NoTensor /\ objs["res"] = NoObj

\* The tensor a call returned, or the diagonal of the DiagLazyTensor it returned.
RetTensor == store[call.tloc]

RetDiag == store[objs[call.oloc]._diag]

\* Every entry of the index tensor lies in [0, n).
InBounds(idx, n) == \A k \in 1..Len(idx.data) : idx.data[k] >= 0 /\ idx.data[k] < n

\* C1: matmul is the product with the dense diagonal matrix.  For an unbatched
\* diagonal d of length n and a vector v of length n the result is the vector
\* d[i]*v[i]; for a matrix rhs of shape (n, k), and for a batched d of shape (B, n)
\* with rhs of shape (B, n, k), the result has the shape of rhs and its entry
\* [.., i, j] is d[.., i] * rhs[.., i, j].
C1_MatmulScalesRows ==
    call.op = "matmul" =>
      /\ (PreDiag.shape = <<PreN>> /\ Arg1.shape = <<PreN>>) =>
            /\ Returned /\ call.kind = "tensor"
            /\ RetTensor.shape = Arg1.shape
            /\ \A i \in 0..(PreN - 1) :
                  At(RetTensor, <<i>>) = MulV(At(PreDiag, <<i>>), At(Arg1, <<i>>))
      /\ (PreDiag.shape = <<PreN>> /\ Len(Arg1.shape) = 2 /\ Arg1.shape[1] = PreN) =>
            /\ Returned /\ call.kind = "tensor"
            /\ RetTensor.shape = Arg1.shape
            /\ \A i \in 0..(PreN - 1), j \in 0..(Arg1.shape[2] - 1) :
                  At(RetTensor, <<i, j>>) = MulV(At(PreDiag, <<i>>), At(Arg1, <<i, j>>))
      /\ (Len(PreDiag.shape) = 2 /\ Len(Arg1.shape) = 3
          /\ Arg1.shape[1] = PreDiag.shape[1] /\ Arg1.shape[2] = PreN) =>
            /\ Returned /\ call.kind = "tensor"
            /\ RetTensor.shape = Arg1.shape
            /\ \A b \in 0..(PreDiag.shape[1] - 1), i \in 0..(PreN - 1),
                  j \in 0..(Arg1.shape[3] - 1) :
                  At(RetTensor, <<b, i, j>>)
                    = MulV(At(PreDiag, <<b, i>>), At(Arg1, <<b, i, j>>))

\* C1's case: a batched diagonal of shape (2, 2) has multiplied a right-hand side
\* of shape (2, 2, 2), and an unequal pair of rows shows in the result.
C1_Witness ==
    /\ call.op = "matmul" /\ call.err = ""
    /\ PreDiag.shape = <<2, 2>> /\ Arg1.shape = <<2, 2, 2>>
    /\ PreDiag.data = <<2, -1, 1, 3>>
    /\ \E k \in 1..8 : RetTensor.data[k] \notin {0, NaN} /\ RetTensor.data[k] # Arg1.data[k]

\* The value get_indices is claimed to return at one coordinate pair.
EntryClaimed(dv, row, col) == IF row = col THEN dv ELSE 0

\* The value the code computes at a coordinate pair: off the diagonal it is the
\* product of the diagonal entry with 0, which is NaN for a diagonal entry that is
\* not finite.
EntryComputed(dv, row, col) == IF row = col THEN dv ELSE IF dv = NaN THEN NaN ELSE 0

\* Either of the two, by name.
EntryBy(rule, dv, row, col) ==
    IF rule = "claimed" THEN EntryClaimed(dv, row, col) ELSE EntryComputed(dv, row, col)

\* get_indices returns the entry the rule gives at every in-range coordinate pair,
\* in the unbatched and in the batched form.
GetIndicesReturns(rule) ==
    /\ (call.op = "get_indices" /\ InBounds(Arg1, PreN) /\ InBounds(Arg2, PreN)) =>
          /\ Returned /\ call.kind = "tensor"
          /\ RetTensor.shape = Arg1.shape
          /\ \A k \in 1..Len(Arg1.data) :
                RetTensor.data[k]
                  = EntryBy(rule, At(PreDiag, <<Arg1.data[k]>>), Arg1.data[k], Arg2.data[k])
    /\ (call.op = "batch_get_indices" /\ InBounds(Arg1, PreDiag.shape[1])
        /\ InBounds(Arg2, PreN) /\ InBounds(Arg3, PreN)) =>
          /\ Returned /\ call.kind = "tensor"
          /\ RetTensor.shape = Arg2.shape
          /\ \A k \in 1..Len(Arg2.data) :
                RetTensor.data[k]
                  = EntryBy(rule, At(PreDiag, <<Arg1.data[k], Arg2.data[k]>>),
                            Arg2.data[k], Arg3.data[k])

\* C2 (as claimed): for index tensors of equal shape with entries in [0, n),
\* get_indices returns a tensor of that shape whose k-th entry is d[row_idx[k]]
\* when row_idx[k] = col_idx[k] and exactly 0 otherwise; the batched form returns
\* d[b[k], row_idx[k]] or 0.
C2_ExactlyZeroOffDiagonal == GetIndicesReturns("claimed")

\* C2 (what the code computes): as claimed, but off the diagonal the entry is 0
\* only when d[row_idx[k]] is finite; it is NaN when d[row_idx[k]] is not.
C2_GetIndicesMasksDiag == GetIndicesReturns("computed")

\* C2's case: an unbatched diagonal has been read at in-range coordinate pairs,
\* one on the diagonal and one off it.
C2_Witness ==
    /\ call.op = "get_indices" /\ call.err = ""
    /\ PreDiag.shape = <<2>> /\ Len(Arg1.data) = 2
    /\ InBounds(Arg1, 2) /\ InBounds(Arg2, 2)
    /\ Arg1.data[1] = Arg2.data[1] /\ Arg1.data[2] # Arg2.data[2]
    /\ RetTensor.data[1] \notin {0, NaN} /\ RetTensor.data[2] = 0

DiagObj(loc) == [cls |-> "DiagLazyTensor", _diag |-> loc, tensor |-> "", lazy_vars |-> <<>>]

\* C3: __add__ keeps the closed form and never densifies.  For diagonals d1, d2
\* of equal shape the sum is a DiagLazyTensor whose diagonal is d1 + d2
\* elementwise; for an operand that is no DiagLazyTensor it is the
\* AddedDiagLazyTensor holding the other operand and self; evaluate() is called
\* on neither operand.
C3_AddKeepsClosedForm ==
    call.op = "__add__" =>
      /\ call.evaluated = {}
      /\ (objs["other"].cls = "DiagLazyTensor"
          /\ call.pre["other_diag"].shape = PreDiag.shape) =>
            /\ Returned /\ call.kind = "lazy"
            /\ objs[call.oloc].cls = "DiagLazyTensor"
            /\ RetDiag.shape = PreDiag.shape
            /\ \A k \in 1..Len(PreDiag.data) :
                  RetDiag.data[k] = AddV(PreDiag.data[k], call.pre["other_diag"].data[k])
      /\ objs["other"].cls # "DiagLazyTensor" =>
            /\ Returned /\ call.kind = "lazy"
            /\ objs[call.oloc].cls = "AddedDiagLazyTensor"
            /\ objs[call.oloc].lazy_vars = <<"other", "self">>
            /\ objs["self"] = DiagObj("self_diag")
            /\ store["other_t"] = call.pre["other_t"]

\* C3's case: two batched diagonals of equal shape have been added.
C3_Witness ==
    /\ call.op = "__add__" /\ call.err = ""
    /\ objs["other"].cls = "DiagLazyTensor"
    /\ PreDiag.shape = <<2, 2>> /\ call.pre["other_diag"].shape = <<2, 2>>
    /\ objs["res"].cls = "DiagLazyTensor"
    /\ \E k \in 1..4 : store["res"].data[k] \notin {NaN, PreDiag.data[k]}

\* C4: sum_batch sums groups of consecutive batch entries.  On a diagonal of shape
\* (B, n), sum_batch() returns a diagonal of shape (n,) whose j-th entry is the sum
\* of d[b][j] over all b; sum_batch(g) with g dividing B returns a diagonal of
\* shape (B/g, n) whose entry [r][j] is the sum of d[b][j] over r*g <= b < (r+1)*g.
C4_SumBatchSumsGroups ==
    (call.op = "sum_batch" /\ Len(PreDiag.shape) = 2) =>
      LET B == PreDiag.shape[1]
      IN  /\ call.g = <<>> =>
                /\ Returned /\ call.kind = "lazy"
                /\ objs[call.oloc].cls = "DiagLazyTensor"
                /\ RetDiag.shape = <<PreN>>
                /\ \A j \in 0..(PreN - 1) :
                      At(RetDiag, <<j>>)
                        = SumTo([b \in 0..(B - 1) |-> At(PreDiag, <<b, j>>)], B)
          /\ (call.g # <<>> /\ call.g[1] >= 1 /\ B % call.g[1] = 0) =>
                /\ Returned /\ call.kind = "lazy"
                /\ objs[call.oloc].cls = "DiagLazyTensor"
                /\ RetDiag.shape = <<B \div call.g[1], PreN>>
                /\ \A r \in 0..((B \div call.g[1]) - 1), j \in 0..(PreN - 1) :
                      At(RetDiag, <<r, j>>)
                        = SumTo([i \in 0..(call.g[1] - 1) |->
                                   At(PreDiag, <<r * call.g[1] + i, j>>)],
                                call.g[1])

\* C4's case: four diagonals of length 2 have been summed in two groups of two.
C4_Witness ==
    /\ call.op = "sum_batch" /\ call.err = ""
    /\ PreDiag = T(<<4, 2>>, <<2, -1, 1, 3, 0, 2, -1, 1>>) /\ call.g = <<2>>
    /\ store["res"] = T(<<2, 2>>, <<3, 2, -1, 3>>)

\* C5: quadratic_form_derivative returns a one-element tuple whose entry has the
\* shape of diag.  For left_vecs l and right_vecs r of diag's shape its entry i is
\* l[i]*r[i]; for l, r with one more trailing dimension of size k it is the sum of
\* l[i][j]*r[i][j] over j in [0, k).
C5_QuadFormDerivative ==
    call.op = "quad_form_derivative" =>
      /\ (Arg1.shape = PreDiag.shape /\ Arg2.shape = PreDiag.shape) =>
            /\ Returned /\ call.kind = "tuple"
            /\ RetTensor.shape = PreDiag.shape
            /\ \A i \in 1..Len(PreDiag.data) :
                  RetTensor.data[i] = MulV(Arg1.data[i], Arg2.data[i])
      /\ (Len(Arg1.shape) = Len(PreDiag.shape) + 1 /\ Arg2.shape = Arg1.shape
          /\ SubSeq(Arg1.shape, 1, Len(PreDiag.shape)) = PreDiag.shape) =>
            LET k == Arg1.shape[Len(Arg1.shape)]
            IN  /\ Returned /\ call.kind = "tuple"
                /\ RetTensor.shape = PreDiag.shape
                /\ \A i \in 1..Len(PreDiag.data) :
                      RetTensor.data[i]
                        = SumTo([j \in 0..(k - 1) |->
                                   MulV(Arg1.data[(i - 1) * k + j + 1],
                                        Arg2.data[(i - 1) * k + j + 1])],
                                k)

\* C5's case: for a batched diagonal, vectors with a trailing dimension of size 2
\* have been multiplied and summed over it.
C5_Witness ==
    /\ call.op = "quad_form_derivative" /\ call.err = "" /\ call.kind = "tuple"
    /\ PreDiag.shape = <<2, 2>> /\ Arg1.shape = <<2, 2, 2>>
    /\ \E i \in 1..4 :
          /\ store["res"].data[i] \notin {0, NaN}
          /\ MulV(Arg1.data[2 * i - 1], Arg2.data[2 * i - 1]) # 0
          /\ MulV(Arg1.data[2 * i], Arg2.data[2 * i]) # 0

\* C6: matmul fails, returning no result, whenever the leading (row) dimension of
\* a vector or matrix rhs differs from n, the cases n = 1 and m = 1 included.
C6_MatmulRejectsRowMismatch ==
    (call.op = "matmul" /\ PreDiag.shape = <<PreN>> /\ Len(Arg1.shape) \in {1, 2}
     /\ Arg1.shape[1] # PreN) => Failed

\* C7: get_indices fails with an IndexOutOfBounds error whenever a coordinate of
\* row_idx or of col_idx lies outside [0, n), negative ones included, and returns
\* no value.
C7_GetIndicesRejectsOutOfRange ==
    /\ (call.op = "get_indices" /\ ~(InBounds(Arg1, PreN) /\ InBounds(Arg2, PreN))) =>
          Failed /\ call.err = "IndexError"
    /\ (call.op = "batch_get_indices"
        /\ ~(InBounds(Arg2, PreN) /\ InBounds(Arg3, PreN))) =>
          Failed /\ call.err = "IndexError"

\* C8: sum_batch(g) on a diagonal of shape (B, n) fails at the call whenever g does
\* not evenly divide B: no new instance is produced and self is left unchanged.
C8_SumBatchRejectsUnevenGroups ==
    (call.op = "sum_batch" /\ Len(PreDiag.shape) = 2 /\ call.g # <<>>
     /\ (call.g[1] < 1 \/ PreDiag.shape[1] % call.g[1] # 0)) =>
      /\ Failed
      /\ store["self_diag"] = PreDiag /\ objs["self"] = DiagObj("self_diag")

\* C8's case: a batch of 4 has been asked to sum in groups of 3, and the call failed.
C8_Witness ==
    /\ call.op = "sum_batch" /\ PreDiag.shape = <<4, 2>> /\ call.g = <<3>>
    /\ call.err = "RuntimeError"

\* The calls C9 is about.
PureOps == {"matmul", "t_matmul", "quad_form_derivative", "transpose", "get_indices",
            "batch_get_indices", "add_diag", "__add__", "diag", "evaluate", "sum_batch"}

\* No call writes to the instance or to the tensors it was given.
NothingMutated ==
    /\ store["self_diag"] = born
    /\ objs["self"] = DiagObj("self_diag")
    /\ call.op \in PureOps =>
          \A l \in TLoc \ {"res"} : store[l] = call.pre[l]

\* What the call returned is neither self nor self's diag tensor.
FreshResult == call.oloc # "self" /\ call.tloc # "self_diag"

\* C9 (as claimed): every operation is pure and returns a freshly allocated
\* result: self's diag and the caller's tensors hold the values they had, and no
\* returned result is self or self's diag tensor.
C9_PureAndFresh ==
    /\ NothingMutated
    /\ (call.op \in PureOps /\ call.err = "") => FreshResult

\* C9 (amended): every operation is pure, and every operation but transpose, which
\* returns self, and diag, which returns self's diag tensor, returns a freshly
\* allocated result.
C9_PureAndFreshButTransposeDiag ==
    /\ NothingMutated
    /\ (call.op \in PureOps \ {"transpose", "diag"} /\ call.err = "") => FreshResult
    /\ (call.op = "transpose" /\ call.err = "") => call.oloc = "self"
    /\ (call.op = "diag" /\ call.err = "") => call.tloc = "self_diag"

\* C9's case: add_diag has returned a new instance whose diagonal differs from
\* that of self, which holds what it held.
C9_Witness ==
    /\ call.op = "add_diag" /\ call.err = "" /\ call.oloc = "res"
    /\ store["res"] # store["self_diag"] /\ store["self_diag"] = born
    /\ Arg1.shape = <<1>> /\ PreDiag.shape = <<2, 2>>

\* C10: every DiagLazyTensor reached through add_diag, __add__ with another
\* diagonal, sum_batch and transpose has a diag of 1 or 2 dimensions, and its
\* size() is (n, n) for a diag of shape (n,) and (B, n, n) for one of shape (B, n).
C10_ShapeInvariant ==
    \A o \in OLoc :
       objs[o].cls = "DiagLazyTensor" =>
          LET d == store[objs[o]._diag]
          IN  /\ Len(d.shape) \in {1, 2}
              /\ Len(d.shape) = 1 => _size(store, objs, o) = <<d.shape[1], d.shape[1]>>
              /\ Len(d.shape) = 2 =>
                    _size(store, objs, o) = <<d.shape[1], d.shape[2], d.shape[2]>>
              /\ (call.op = "size" /\ o = "self") => call.val = _size(store, objs, o)

\* C10's case: on an instance that an earlier call returned, sum_batch with a group
\* size has returned a batched diagonal.
C10_Witness ==
    /\ depth = 1 /\ call.op = "sum_batch" /\ call.err = "" /\ call.g = <<2>>
    /\ objs["res"].cls = "DiagLazyTensor" /\ store["res"].shape = <<2, 2>>
====
